---- MODULE Spec2Model ----
(***************************************************************************)
(* dfqa: the column checks of dfqa/consistency.py (verifyConsistency and   *)
(* checkConsistency) as a state machine over one call.                     *)
(*                                                                         *)
(* Text is a sequence of Unicode code points ("NA" is <<78, 65>>).  A cell *)
(* is a record [k |-> kind, v |-> payload]:                                *)
(*   "missing"  v = <<>>                 None / NaN / NaT                  *)
(*   "str"      v = the code points                                        *)
(*   "int"      v = <<n, 0>>             the Python int n                  *)
(*   "float"    v = <<n, t>>             the Python float n + t/10         *)
(*   "bool"     v = <<b, 0>>             True is <<1, 0>>, False <<0, 0>>  *)
(*   "datetime" v = <<y, m, d>>          a Timestamp                       *)
(*                                                                         *)
(* A column is textual when pandas holds it under dtype object, numeric    *)
(* when is_numeric_dtype accepts its dtype (int64, float64, bool).         *)
(***************************************************************************)
EXTENDS Integers, Sequences, FiniteSets, TLC

\* ------------------------------------------------------------------ bounds
\* Tables of the wide family have up to MaxCols columns of up to MaxRows rows.
MaxCols == 2
MaxRows == 2
\* Tables of the deep family have one column of up to DeepRows rows.
DeepRows == 3

\* ------------------------------------------------------------ text helpers
Str_(s) == [k |-> "str", v |-> s]
Int_(n) == [k |-> "int", v |-> <<n, 0>>]
Float_(n, t) == [k |-> "float", v |-> <<n, t>>]
Bool_(b) == [k |-> "bool", v |-> <<b, 0>>]
Missing == [k |-> "missing", v |-> <<>>]
Datetime_(y, m, d) == [k |-> "datetime", v |-> <<y, m, d>>]

S_Yes == <<89, 101, 115>>
S_No == <<78, 111>>
S_Maybe == <<77, 97, 121, 98, 101>>
S_NA == <<78, 65>>
S_na == <<110, 97>>
S_cafe == <<99, 97, 102, 101>>
S_cafe_acute == <<99, 97, 102, 233>>
S_iso_jan5 == <<50, 48, 50, 51, 45, 48, 49, 45, 48, 53>>
S_us_jan5 == <<48, 49, 47, 48, 53, 47, 50, 48, 50, 51>>
S_iso_feb5 == <<50, 48, 50, 51, 45, 48, 50, 45, 48, 53>>
S_True == <<84, 114, 117, 101>>
S_False == <<70, 97, 108, 115, 101>>

\* The largest code point the pattern [^\x00-\x7F] does not match.
AsciiMax == 127

RECURSIVE Digits(_)
\* The decimal digits of a natural number, as code points.
Digits(n) == IF n < 10 THEN <<48 + n>> ELSE Digits(n \div 10) \o <<48 + (n % 10)>>

RECURSIVE ZeroPad(_, _)
\* Digits left-padded with "0" to a width.
ZeroPad(s, w) == IF Len(s) >= w THEN s ELSE ZeroPad(<<48>> \o s, w)

IsDigit(c) == c \in 48..57

AllDigits(s, lo, hi) == \A i \in lo..hi : IsDigit(s[i])

RECURSIVE Num(_, _, _)
\* The number written by the digits s[lo..hi].
Num(s, lo, hi) ==
    IF lo > hi THEN 0 ELSE Num(s, lo, hi - 1) * 10 + (s[hi] - 48)

IsLeap(y) == (y % 4 = 0 /\ y % 100 # 0) \/ y % 400 = 0

DaysIn(y, m) ==
    IF m = 2 THEN (IF IsLeap(y) THEN 29 ELSE 28)
    ELSE IF m \in {4, 6, 9, 11} THEN 30 ELSE 31

ValidDate(y, m, d) == m \in 1..12 /\ d \in 1..DaysIn(y, m)

NoDate == [ok |-> FALSE, y |-> 0, m |-> 0, d |-> 0]
Date(y, m, d) == [ok |-> TRUE, y |-> y, m |-> m, d |-> d]

\* ParseText reading NN/NN/YYYY day first (dayfirst=True).
ParseTextDayFirst(s) ==
    IF Len(s) = 10 /\ s[5] = 45 /\ s[8] = 45
       /\ AllDigits(s, 1, 4) /\ AllDigits(s, 6, 7) /\ AllDigits(s, 9, 10)
    THEN LET y == Num(s, 1, 4)
             m == Num(s, 6, 7)
             d == Num(s, 9, 10)
         IN IF ValidDate(y, m, d) THEN Date(y, m, d) ELSE NoDate
    ELSE IF Len(s) = 10 /\ s[3] = 47 /\ s[6] = 47
            /\ AllDigits(s, 1, 2) /\ AllDigits(s, 4, 5) /\ AllDigits(s, 7, 10)
    THEN LET a == Num(s, 1, 2)
             b == Num(s, 4, 5)
             y == Num(s, 7, 10)
         IN IF ValidDate(y, b, a) THEN Date(y, b, a)
            ELSE IF ValidDate(y, a, b) THEN Date(y, a, b)
            ELSE NoDate
    ELSE NoDate

\* pd.to_datetime on text: YYYY-MM-DD, and NN/NN/YYYY read month first unless
\* only the day-first reading is a date.  Any other text of the model's
\* vocabulary is text the parser rejects (or reads as NaT, whose strftime
\* raises): both end in the except branch.
ParseText(s) ==
    IF Len(s) = 10 /\ s[5] = 45 /\ s[8] = 45
       /\ AllDigits(s, 1, 4) /\ AllDigits(s, 6, 7) /\ AllDigits(s, 9, 10)
    THEN LET y == Num(s, 1, 4)
             m == Num(s, 6, 7)
             d == Num(s, 9, 10)
         IN IF ValidDate(y, m, d) THEN Date(y, m, d) ELSE NoDate
    ELSE IF Len(s) = 10 /\ s[3] = 47 /\ s[6] = 47
            /\ AllDigits(s, 1, 2) /\ AllDigits(s, 4, 5) /\ AllDigits(s, 7, 10)
    THEN LET a == Num(s, 1, 2)
             b == Num(s, 4, 5)
             y == Num(s, 7, 10)
         IN IF ValidDate(y, a, b) THEN Date(y, a, b)
            ELSE IF ValidDate(y, b, a) THEN Date(y, b, a)
            ELSE NoDate
    ELSE NoDate

\* pd.to_datetime(value, errors="raise") on one cell of an object column:
\* numbers are nanoseconds since the epoch (the small numbers of the model
\* all fall on 1970-01-01), a bool raises TypeError, a Timestamp is itself.
to_datetime(value) ==
    IF value.k = "str" THEN ParseText(value.v)
    ELSE IF value.k \in {"int", "float"} THEN Date(1970, 1, 1)
    ELSE IF value.k = "datetime" THEN Date(value.v[1], value.v[2], value.v[3])
    ELSE NoDate

\* parsed_date.strftime("%Y-%m-%d")
strftime(t) ==
    ZeroPad(Digits(t.y), 4) \o <<45>> \o ZeroPad(Digits(t.m), 2)
        \o <<45>> \o ZeroPad(Digits(t.d), 2)

\* str(x) of a cell, as values.astype(str) computes it.
str(x) ==
    IF x.k = "str" THEN x.v
    ELSE IF x.k = "int" THEN Digits(x.v[1])
    ELSE IF x.k = "float" THEN Digits(x.v[1]) \o <<46>> \o Digits(x.v[2])
    ELSE IF x.k = "bool" THEN (IF x.v[1] = 1 THEN S_True ELSE S_False)
    ELSE strftime(Date(x.v[1], x.v[2], x.v[3]))

\* The key under which Python's set and pandas' unique hold a value: equal
\* numbers are one element whatever their type (1 == 1.0 == True).
PyKey(x) ==
    IF x.k \in {"int", "float", "bool"} THEN [k |-> "num", v |-> x.v] ELSE x

\* type(x).__name__ as text.
TypeName(x) ==
    IF x.k = "int" THEN <<105, 110, 116>>
    ELSE IF x.k = "float" THEN <<102, 108, 111, 97, 116>>
    ELSE IF x.k = "bool" THEN <<98, 111, 111, 108>>
    ELSE IF x.k = "str" THEN <<115, 116, 114>>
    ELSE IF x.k = "datetime" THEN <<84, 105, 109, 101, 115, 116, 97, 109, 112>>
    ELSE <<78, 111, 110, 101, 84, 121, 112, 101>>

\* ------------------------------------------------------------------ tables
\* A column is [name, dtype, supplied]: the values the caller supplied and the
\* dtype pandas holds them under.  A table is
\* [isDataFrame, hasColumns, columns]; for an object that is not a DataFrame,
\* hasColumns says whether it has a `columns` attribute at all.
ColNames == <<"A", "B", "C", "D">>

\* One cell as df[col] yields it: a float64 column holds every number as a
\* float, every other dtype holds the supplied value.
Stored(dtype, x) ==
    IF dtype = "float64" /\ x.k = "int" THEN [k |-> "float", v |-> x.v] ELSE x

\* df[col] as the sequence of its cells.
Cells(c) == [i \in 1..Len(c.supplied) |-> Stored(c.dtype, c.supplied[i])]

\* Series.dropna()
dropna(cells) == SelectSeq(cells, LAMBDA x : x.k # "missing")

\* df[col].dtype == "object"
IsObject(c) == c.dtype = "object"

\* pd.api.types.is_numeric_dtype(df[col]): bool counts as numeric.
is_numeric_dtype(c) == c.dtype \in {"int64", "float64", "bool"}

Range(s) == {s[i] : i \in 1..Len(s)}

\* ---------------------------------------------------------------- findings
Finding(cat, vals, names) == [cat |-> cat, vals |-> vals, names |-> names]

DateMsg == "Inconsistent date formats"
BoolMsg == "Possible inconsistent boolean values"
MissingMsg == "Missing value placeholders"
EncodingMsg == "Non-ASCII or encoding anomalies detected"
MixedMsg == "Mixed numeric types"
PrecisionMsg == "Inconsistent numeric precision (int vs float)"

\* The set of canonical forms of the values that parse.
parsed_formats(values) ==
    {Str_(strftime(to_datetime(x))) : x \in {y \in Range(values) : to_datetime(y).ok}}

\* set(values.unique())
unique_vals(values) == {PyKey(x) : x \in Range(values)}

boolean_aliases ==
    {Str_(s) : s \in {<<84, 82, 85, 69>>, <<70, 65, 76, 83, 69>>, S_True, S_False,
                      <<84>>, <<70>>, <<116>>, <<102>>,
                      <<89, 69, 83>>, <<78, 79>>, S_Yes, S_No,
                      <<89>>, <<78>>, <<121>>, <<110>>}}
    \cup {PyKey(Int_(1)), PyKey(Int_(0)), PyKey(Float_(1, 0)), PyKey(Float_(0, 0))}

known_missing ==
    {Str_(s) : s \in {S_NA, <<78, 47, 65>>, <<110, 117, 108, 108>>,
                      <<110, 111, 110, 101>>, <<78, 111, 110, 101>>, <<45>>, <<>>,
                      <<109, 105, 115, 115, 105, 110, 103>>}}

\* found_missing matching the placeholders whatever their case.
found_missing_nocase(values) ==
    unique_vals(values) \cap (known_missing \cup {Str_(S_na)})

found_missing(values) == unique_vals(values) \cap known_missing

\* NonAscii with re.match in place of re.search: the first character only.
NonAsciiFirst(s) == Len(s) > 0 /\ s[1] > AsciiMax

\* bool(re.search(r"[^\x00-\x7F]", x))
NonAscii(s) == \E j \in 1..Len(s) : s[j] > AsciiMax

suspect_chars(values) == [i \in 1..Len(values) |-> NonAscii(str(values[i]))]

DateCheck(values) ==
    IF Cardinality(parsed_formats(values)) > 1
    THEN <<Finding(DateMsg, parsed_formats(values), <<>>)>> ELSE <<>>

\* BoolCheck listing the matching values only.
BoolCheckMatching(values) ==
    IF unique_vals(values) \cap boolean_aliases # {}
    THEN <<Finding(BoolMsg, unique_vals(values) \cap boolean_aliases, <<>>)>> ELSE <<>>

BoolCheck(values) ==
    IF unique_vals(values) \cap boolean_aliases # {}
    THEN <<Finding(BoolMsg, unique_vals(values), <<>>)>> ELSE <<>>

MissingCheck(values) ==
    IF Cardinality(found_missing(values)) > 0
    THEN <<Finding(MissingMsg, found_missing(values), <<>>)>> ELSE <<>>

EncodingCheck(values) ==
    IF \E i \in 1..Len(values) : suspect_chars(values)[i]
    THEN <<Finding(EncodingMsg, {}, <<>>)>> ELSE <<>>

\* ObjectChecks stopping at the first check that finds something.
ObjectChecksFirstOnly(c) ==
    IF IsObject(c)
    THEN LET values == dropna(Cells(c))
         IN IF DateCheck(values) # <<>> THEN DateCheck(values)
            ELSE IF BoolCheck(values) # <<>> THEN BoolCheck(values)
            ELSE IF MissingCheck(values) # <<>> THEN MissingCheck(values)
            ELSE EncodingCheck(values)
    ELSE <<>>

\* The object-column branch: what it appends to column_inconsistencies.
ObjectChecks(c) ==
    IF IsObject(c)
    THEN LET values == dropna(Cells(c))
         IN DateCheck(values) \o BoolCheck(values) \o MissingCheck(values)
                \o EncodingCheck(values)
    ELSE <<>>

RECURSIVE Unique(_)
\* Series.unique(): the distinct elements in order of first appearance.
Unique(s) ==
    IF s = <<>> THEN <<>>
    ELSE LET front == Unique(SubSeq(s, 1, Len(s) - 1))
             last == s[Len(s)]
         IN IF last \in Range(front) THEN front ELSE Append(front, last)

\* df[col].dropna().apply(lambda x: type(x)).unique(), by type name
types_in_col(c) ==
    LET values == dropna(Cells(c))
    IN Unique([i \in 1..Len(values) |-> TypeName(values[i])])

\* float.is_integer(x) for a float x
is_integer(x) == x.v[2] = 0

\* IsIntegerRaises as if apply called the function on the dtype, values or not.
IsIntegerRaisesOnDtype(c) == c.dtype # "float64"

\* float.is_integer applied to every value: it raises TypeError on the first
\* value that is not a float.  An empty Series is never applied to.
IsIntegerRaises(c) == \E x \in Range(dropna(Cells(c))) : x.k # "float"

\* Whether the numeric branch raises: the elif is evaluated only when the
\* column holds at most one runtime type.
NumericRaises(c) ==
    is_numeric_dtype(c) /\ Len(types_in_col(c)) <= 1 /\ IsIntegerRaises(c)

\* NumericChecks with nunique() > 0 in place of nunique() > 1.
NumericChecksAny(c) ==
    IF is_numeric_dtype(c)
    THEN IF Len(types_in_col(c)) > 1
         THEN <<Finding(MixedMsg, {}, types_in_col(c))>>
         ELSE IF Cardinality({is_integer(x) : x \in Range(dropna(Cells(c)))}) > 0
         THEN <<Finding(PrecisionMsg, {}, <<>>)>>
         ELSE <<>>
    ELSE <<>>

\* The numeric branch: what it appends to column_inconsistencies.
NumericChecks(c) ==
    IF is_numeric_dtype(c)
    THEN IF Len(types_in_col(c)) > 1
         THEN <<Finding(MixedMsg, {}, types_in_col(c))>>
         ELSE IF Cardinality({is_integer(x) : x \in Range(dropna(Cells(c)))}) > 1
         THEN <<Finding(PrecisionMsg, {}, <<>>)>>
         ELSE <<>>
    ELSE <<>>

\* ------------------------------------------------------------------ inputs
Column(name, dtype, supplied) == [name |-> name, dtype |-> dtype, supplied |-> supplied]

Dtypes == {"object", "float64", "int64", "bool", "datetime64[ns]"}

\* The cells a column of each dtype is drawn from, in the wide family.
WideVocab(dtype) ==
    CASE dtype = "object" -> {Str_(S_Yes), Str_(S_NA), Str_(S_cafe)}
      [] dtype = "float64" -> {Float_(1, 0), Float_(2, 5)}
      [] dtype = "int64" -> {Int_(1)}
      [] dtype = "bool" -> {Bool_(1)}
      [] OTHER -> {Datetime_(2023, 1, 5)}

\* The cells a column of each dtype is drawn from, in the deep family.  A
\* float64 column may be supplied ints among its floats, an object column
\* holds any Python object.
DeepVocab(dtype) ==
    CASE dtype = "object" ->
            {Missing, Str_(S_iso_jan5), Str_(S_us_jan5), Str_(S_iso_feb5),
             Str_(S_Yes), Str_(S_No), Str_(S_Maybe), Str_(S_NA), Str_(S_na), Str_(<<>>),
             Str_(S_cafe_acute), Str_(S_cafe), Int_(1), Float_(2, 5), Bool_(1)}
      [] dtype = "float64" -> {Missing, Int_(1), Int_(3), Float_(1, 0), Float_(2, 5)}
      [] dtype = "int64" -> {Int_(1), Int_(2)}
      [] dtype = "bool" -> {Bool_(1), Bool_(0)}
      [] OTHER -> {Missing, Datetime_(2023, 1, 5)}

WideColumns(r) == UNION {[1..r -> WideVocab(d)] \X {d} : d \in Dtypes}

DeepColumns(r) == UNION {[1..r -> DeepVocab(d)] \X {d} : d \in Dtypes}

DataFrame(cols) ==
    [isDataFrame |-> TRUE, hasColumns |-> TRUE,
     columns |-> [i \in 1..Len(cols) |-> Column(ColNames[i], cols[i][2], cols[i][1])]]

WideTables ==
    {DataFrame(cols) :
        cols \in UNION {[1..n -> WideColumns(r)] : n \in 0..MaxCols, r \in 0..MaxRows}}

DeepTables == {DataFrame(<<c>>) : c \in UNION {DeepColumns(r) : r \in 0..DeepRows}}

\* Objects that are not a DataFrame: one without a `columns` attribute (a
\* list, None), one with an empty `columns` attribute.
NotTables ==
    {[isDataFrame |-> FALSE, hasColumns |-> h, columns |-> <<>>] : h \in BOOLEAN}

Inputs == WideTables \cup DeepTables \cup NotTables

\* df.empty: no column, or no row.
empty(t) == Len(t.columns) = 0 \/ Len(t.columns[1].supplied) = 0

\* The integer nearest to num / den, ties to the even one: round() on the
\* quotient.  (The quotients of the model's tables and files are no ties.)
RoundHalfEven(num, den) ==
    LET q == num \div den
        r == num % den
    IN IF 2 * r < den THEN q
       ELSE IF 2 * r > den THEN q + 1
       ELSE IF q % 2 = 0 THEN q ELSE q + 1

\* ------------------------------------------------------------------- files
\* A file is [path, exists, size, mtime, nrows, columns]: the path given, and
\* what the file system and the file hold: its size in bytes, its
\* modification time <<Y, m, d, H, M, S>>, the rows and the column names of
\* its data.  Every file of the model holds data its reader can parse.
P_data_xlsx == <<100, 97, 116, 97, 46, 120, 108, 115, 120>>
P_data_csv == <<100, 97, 116, 97, 46, 99, 115, 118>>
P_data_XLSX == <<100, 97, 116, 97, 46, 88, 76, 83, 88>>
P_data_txt == <<100, 97, 116, 97, 46, 116, 120, 116>>
P_dir_data_csv == <<100, 105, 114, 47, 100, 97, 116, 97, 46, 99, 115, 118>>
P_dot_csv == <<46, 99, 115, 118>>
P_data == <<100, 97, 116, 97>>

Paths == {P_data_xlsx, P_data_csv, P_data_XLSX, P_data_txt, P_dir_data_csv,
          P_dot_csv, P_data}

E_xlsx == <<46, 120, 108, 115, 120>>
E_csv == <<46, 99, 115, 118>>

Files ==
    [path : Paths, exists : BOOLEAN, size : {2600, 1234567},
     mtime : {<<2024, 3, 9, 8, 5, 0>>}, nrows : {0, 3},
     columns : {<<<<65>>>>, <<<<65>>, <<66>>>>}]

NoFile ==
    [path |-> <<>>, exists |-> FALSE, size |-> 0, mtime |-> <<1970, 1, 1, 0, 0, 0>>,
     nrows |-> 0, columns |-> <<>>]

\* A local name that was never assigned.
Unbound == [isDataFrame |-> FALSE, hasColumns |-> FALSE, columns |-> <<>>]

\* The largest index of character ch in p, 0 when there is none: p.rfind(ch) + 1
rfind(p, ch) ==
    IF \E i \in 1..Len(p) : p[i] = ch
    THEN CHOOSE i \in 1..Len(p) : p[i] = ch /\ \A j \in (i + 1)..Len(p) : p[j] # ch
    ELSE 0

\* os.path.splitext(p)[1]: from the last dot of the last path component, if
\* a character other than a dot precedes it there.
extension(p) ==
    LET sep == rfind(p, 47)
        dot == rfind(p, 46)
    IN IF dot > sep /\ \E i \in (sep + 1)..(dot - 1) : p[i] # 46
       THEN SubSeq(p, dot, Len(p)) ELSE <<>>

\* os.path.basename(p)
basename(p) == SubSeq(p, rfind(p, 47) + 1, Len(p))

RECURSIVE StripZeros(_)
\* Decimal digits without their trailing zeros, one digit kept.
StripZeros(s) ==
    IF Len(s) > 1 /\ s[Len(s)] = 48 THEN StripZeros(SubSeq(s, 1, Len(s) - 1)) ELSE s

\* str(round(size / 1000000, 3)) + " MB"
file_size(size) ==
    LET t == RoundHalfEven(size, 1000)
    IN Digits(t \div 1000) \o <<46>> \o StripZeros(ZeroPad(Digits(t % 1000), 3))
          \o <<32, 77, 66>>

\* last_modified.strftime("%Y-%m-%d %H:%M:%S")
strftime_full(t) ==
    strftime(Date(t[1], t[2], t[3])) \o <<32>> \o ZeroPad(Digits(t[4]), 2)
        \o <<58>> \o ZeroPad(Digits(t[5]), 2) \o <<58>> \o ZeroPad(Digits(t[6]), 2)

\* The empty dict.
NoKeys == [k \in {} |-> Missing]

\* The dict once the file's own entries are set.
FileEntries(f) ==
    ("file_name" :> Str_(basename(f.path)))
        @@ ("file_size" :> Str_(file_size(f.size)))
        @@ ("last_modified" :> Str_(strftime_full(f.mtime)))

PropertyKeys == {"title", "subject", "creator", "created", "modified", "category"}

\* The dict once the CSV branch has set the document properties to None.
CsvEntries(f) == FileEntries(f) @@ [k \in PropertyKeys |-> Missing]

\* ------------------------------------------------------------------- state
VARIABLES fn, df, pc, col, column_inconsistencies, inconsistencies, result, raised,
          file, metadata

vars == <<fn, df, pc, col, column_inconsistencies, inconsistencies, result, raised,
          file, metadata>>

NoFrame == [columns |-> <<>>, rows |-> <<>>]

\* The input of a function that takes a table: no file is involved.
TableCall ==
    /\ fn \in {"verifyConsistency", "checkConsistency", "checkCompletedness",
               "checkUniqueness"}
    /\ df \in Inputs
    /\ file = NoFile

\* The input of getMetadata: a path and the file system's answer for it.  Its
\* local df is never bound.
FileCall ==
    /\ fn = "getMetadata"
    /\ df = Unbound
    /\ file \in Files

Init ==
    /\ TableCall \/ FileCall
    /\ pc = "start"
    /\ col = 0
    /\ column_inconsistencies = <<>>
    /\ inconsistencies = <<>>
    /\ result = NoFrame
    /\ raised = "none"
    /\ metadata = NoKeys

\* ------------------------------------------------------- verifyConsistency
\* `for col in df.columns`: the attribute lookup that starts the loop.  The
\* function has no isinstance check; an object without the attribute raises
\* AttributeError here.
Columns ==
    /\ fn = "verifyConsistency" /\ pc = "start"
    /\ IF df.hasColumns
       THEN pc' = "loop" /\ raised' = raised
       ELSE pc' = "done" /\ raised' = "AttributeError"
    /\ UNCHANGED <<fn, df, col, column_inconsistencies, inconsistencies, result, file, metadata>>

\* column_inconsistencies when the loop body ends or raises.
ColumnChecks(c) ==
    IF NumericRaises(c) THEN ObjectChecks(c) ELSE ObjectChecks(c) \o NumericChecks(c)

\* step 3 of the body: inconsistencies[col] = column_inconsistencies
Record(incons, c, items) ==
    IF items # <<>> THEN Append(incons, [col |-> c.name, items |-> items]) ELSE incons

\* One iteration of the loop over df.columns.
LoopBody ==
    /\ fn = "verifyConsistency" /\ pc = "loop" /\ col < Len(df.columns)
    /\ LET c == df.columns[col + 1]
       IN /\ column_inconsistencies' = ColumnChecks(c)
          /\ col' = col + 1
          /\ IF NumericRaises(c)
             THEN /\ pc' = "done" /\ raised' = "TypeError"
                  /\ inconsistencies' = inconsistencies
             ELSE /\ pc' = pc /\ raised' = raised
                  /\ inconsistencies' = Record(inconsistencies, c, ColumnChecks(c))
    /\ UNCHANGED <<fn, df, result, file, metadata>>

Max(S) == CHOOSE x \in S : \A y \in S : y <= x

NoneCell == Finding("None", {}, <<>>)

\* pd.DataFrame.from_dict(inconsistencies, orient="index").reset_index(): one
\* row per key, the key first, then the list's items one per column, short
\* lists padded with None.
from_dict(incons) ==
    LET width == Max({Len(incons[i].items) : i \in 1..Len(incons)})
    IN [columns |-> <<"index">> \o [j \in 1..width |-> "item"],
        rows |-> [i \in 1..Len(incons) |->
                    <<incons[i].col>> \o
                    [j \in 1..width |->
                        IF j <= Len(incons[i].items) THEN incons[i].items[j]
                        ELSE NoneCell]]]

ReportColumns == <<"Column", "Inconsistencies">>

\* result.columns = [...] raises ValueError unless the frame has that many columns.
SetColumnsRaises(frame, labels) == Len(frame.columns) # Len(labels)

\* "Compile result": the empty report, or the frame built from the dict.
Compile ==
    /\ fn = "verifyConsistency" /\ pc = "loop" /\ col = Len(df.columns)
    /\ pc' = "done"
    /\ IF inconsistencies = <<>>
       THEN result' = [columns |-> ReportColumns, rows |-> <<>>] /\ raised' = raised
       ELSE IF SetColumnsRaises(from_dict(inconsistencies), ReportColumns)
       THEN result' = result /\ raised' = "ValueError"
       ELSE /\ result' = [columns |-> ReportColumns,
                          rows |-> from_dict(inconsistencies).rows]
            /\ raised' = raised
    /\ UNCHANGED <<fn, df, col, column_inconsistencies, inconsistencies, file, metadata>>

\* -------------------------------------------------------- checkConsistency
\* type(x).__name__ of a cell of a column, missing cells included.
CellTypeName(dtype, x) ==
    IF x.k # "missing" THEN TypeName(x)
    ELSE IF dtype = "float64" THEN TypeName(Float_(0, 0))
    ELSE IF dtype = "object" THEN TypeName(Missing)
    ELSE <<78, 97, 84, 84, 121, 112, 101>>

\* df[col].apply(type).unique(), by type name
ColumnTypes(c) ==
    Unique([i \in 1..Len(c.supplied) |-> CellTypeName(c.dtype, Cells(c)[i])])

RECURSIVE Join(_)
\* ", ".join(names)
Join(names) ==
    IF names = <<>> THEN <<>>
    ELSE IF Len(names) = 1 THEN names[1]
    ELSE Join(SubSeq(names, 1, Len(names) - 1)) \o <<44, 32>> \o names[Len(names)]

res_table(t) ==
    [columns |-> <<"Column", "Number_Data_Type", "List_Data_Type">>,
     rows |-> [i \in 1..Len(t.columns) |->
                 <<t.columns[i].name, Len(ColumnTypes(t.columns[i])),
                   Join(ColumnTypes(t.columns[i]))>>]]

CheckConsistency ==
    /\ fn = "checkConsistency" /\ pc = "start"
    /\ pc' = "done"
    /\ IF ~df.isDataFrame THEN raised' = "TypeError" /\ result' = result
       ELSE IF empty(df) THEN raised' = "ValueError" /\ result' = result
       ELSE raised' = raised /\ result' = res_table(df)
    /\ UNCHANGED <<fn, df, col, column_inconsistencies, inconsistencies, file, metadata>>

\* ------------------------------------------------------ checkCompletedness
\* round((i / total_record) * 100, 2), in hundredths of a percent
Percent(i, total_record) == RoundHalfEven(i * 10000, total_record)

\* df.shape[0]
nrows(t) == Len(t.columns[1].supplied)

\* df.isna().sum() for one column
missing(c) == Cardinality({i \in 1..Len(c.supplied) : c.supplied[i].k = "missing"})

completedness_table(t) ==
    [columns |-> <<"Column", "Missing_Value", "Missingness_Percentage_(%)">>,
     rows |-> [i \in 1..Len(t.columns) |->
                 <<t.columns[i].name, missing(t.columns[i]),
                   Percent(missing(t.columns[i]), nrows(t))>>]]

CheckCompletedness ==
    /\ fn = "checkCompletedness" /\ pc = "start"
    /\ pc' = "done"
    /\ IF ~df.isDataFrame THEN raised' = "TypeError" /\ result' = result
       ELSE IF empty(df) THEN raised' = "ValueError" /\ result' = result
       ELSE raised' = raised /\ result' = completedness_table(df)
    /\ UNCHANGED <<fn, df, col, column_inconsistencies, inconsistencies, file, metadata>>

\* --------------------------------------------------------- checkUniqueness
\* df[col].unique(): the distinct cells, a missing one included, in order of
\* first appearance.
uniques(c) == Unique([i \in 1..Len(c.supplied) |-> PyKey(Cells(c)[i])])

\* df[col].nunique(): the distinct non-missing cells.
nunique(c) == Cardinality({PyKey(x) : x \in Range(dropna(Cells(c)))})

\* The length of the sample of unique values.
SampleMax == 5

\* list(uniques) or list(uniques[:5])
sample_unique(c) ==
    IF Len(uniques(c)) < SampleMax THEN uniques(c) ELSE SubSeq(uniques(c), 1, SampleMax)

uniqueness_table(t) ==
    [columns |-> <<"Column", "Number_Unique_Value", "Sample_Unique_Value",
                   "Percentage_of_Total_Rows_(%)">>,
     rows |-> [i \in 1..Len(t.columns) |->
                 <<t.columns[i].name, nunique(t.columns[i]),
                   sample_unique(t.columns[i]),
                   Percent(nunique(t.columns[i]), nrows(t))>>]]

CheckUniqueness ==
    /\ fn = "checkUniqueness" /\ pc = "start"
    /\ pc' = "done"
    /\ IF ~df.isDataFrame THEN raised' = "TypeError" /\ result' = result
       ELSE IF empty(df) THEN raised' = "ValueError" /\ result' = result
       ELSE raised' = raised /\ result' = uniqueness_table(df)
    /\ UNCHANGED <<fn, df, col, column_inconsistencies, inconsistencies, file, metadata>>

\* -------------------------------------------------------------- getMetadata
\* The whole call.  The extension test is case-sensitive; os.path.getsize
\* raises on a path that does not exist; load_workbook has no parameter
\* file_name, so the call raises TypeError; the CSV branch drops what read_csv
\* returns, so df is unbound where df.shape is read.
GetMetadata ==
    /\ fn = "getMetadata" /\ pc = "start"
    /\ pc' = "done"
    /\ IF extension(file.path) \notin {E_xlsx, E_csv}
       THEN raised' = "TypeError" /\ metadata' = metadata
       ELSE IF ~file.exists
       THEN /\ raised' = "FileNotFoundError"
            /\ metadata' = ("file_name" :> Str_(basename(file.path)))
       ELSE IF extension(file.path) = E_xlsx
       THEN raised' = "TypeError" /\ metadata' = FileEntries(file)
       ELSE raised' = "UnboundLocalError" /\ metadata' = CsvEntries(file)
    /\ UNCHANGED <<fn, df, col, column_inconsistencies, inconsistencies, result, file>>

Next ==
    \/ Columns
    \/ LoopBody
    \/ Compile
    \/ CheckConsistency
    \/ CheckCompletedness
    \/ CheckUniqueness
    \/ GetMetadata

Spec == Init /\ [][Next]_vars

\* ------------------------------------------------------------------ claims
\* verifyConsistency was called on a DataFrame.
VerifyOnTable == fn = "verifyConsistency" /\ df.isDataFrame

\* The loop body has run on a column: column_inconsistencies is that column's.
Inspected == VerifyOnTable /\ col >= 1

\* The column the loop body ran on last.
LastColumn == df.columns[col]

\* The non-missing values of that column, as the checks see them.
LastValues == dropna(Cells(LastColumn))

\* The findings of a category in column_inconsistencies.
FindingsOf(cat) ==
    {i \in 1..Len(column_inconsistencies) : column_inconsistencies[i].cat = cat}

Has(cat) == FindingsOf(cat) # {}

\* The values a finding of the category lists.
Listed(cat) == UNION {column_inconsistencies[i].vals : i \in FindingsOf(cat)}

\* The call returned a report with no row.
EmptyReport ==
    pc = "done" /\ raised = "none" /\ result = [columns |-> ReportColumns, rows |-> <<>>]

\* C1: on every DataFrame, whatever its cells and columns, verifyConsistency
\* raises nothing and, once done, has returned a report with the two fields
\* Column and Inconsistencies.
C1_NeverRaises ==
    VerifyOnTable =>
        /\ raised = "none"
        /\ pc = "done" => result.columns = ReportColumns

\* C2: when the loop over the columns has completed, a report is returned
\* whose rows are, in the table's column order, exactly the columns with at
\* least one finding, each row having two fields and carrying all the
\* findings of its column, whatever their number.
C2_ReportShape ==
    (VerifyOnTable /\ pc = "done" /\ raised # "TypeError") =>
        /\ raised = "none"
        /\ result.columns = ReportColumns
        /\ Len(result.rows) = Len(inconsistencies)
        /\ \A i \in 1..Len(result.rows) :
              /\ Len(result.rows[i]) = 2
              /\ result.rows[i][1] = inconsistencies[i].col
              /\ Tail(result.rows[i]) = inconsistencies[i].items
        /\ [i \in 1..Len(inconsistencies) |-> inconsistencies[i].col]
              = SelectSeq([i \in 1..Len(df.columns) |-> df.columns[i].name],
                          LAMBDA n : \E i \in 1..Len(df.columns) :
                              /\ df.columns[i].name = n
                              /\ ColumnChecks(df.columns[i]) # <<>>)

\* The runtime representations among the non-missing values as supplied.
SuppliedTypes(c) == {TypeName(x) : x \in Range(dropna(c.supplied))}

\* C3: a numeric column whose non-missing values were supplied in more than
\* one numeric representation gets the mixed-numeric-types finding, naming
\* those representations, and no numeric-precision finding.
C3_MixedSupplied ==
    (Inspected /\ is_numeric_dtype(LastColumn)
        /\ Cardinality(SuppliedTypes(LastColumn)) > 1) =>
        /\ Has(MixedMsg)
        /\ \A i \in FindingsOf(MixedMsg) :
              Range(column_inconsistencies[i].names) = SuppliedTypes(LastColumn)
        /\ ~Has(PrecisionMsg)

\* C4: given something that is not a DataFrame, verifyConsistency raises
\* TypeError, as checkConsistency does, and inspects no column.
C4_RejectsNonTable ==
    (fn = "verifyConsistency" /\ ~df.isDataFrame) =>
        /\ col = 0
        /\ pc = "done" => raised = "TypeError"

\* C5: on a table whose columns are all boolean-valued or datetime,
\* verifyConsistency raises nothing and returns the empty report.
C5_OtherKindsEmpty ==
    (VerifyOnTable
        /\ \A i \in 1..Len(df.columns) :
              df.columns[i].dtype \in {"bool", "datetime64[ns]"}) =>
        /\ raised = "none"
        /\ pc = "done" => EmptyReport

\* The canonical YYYY-MM-DD forms of the values that parse as dates.
CanonicalForms(values) ==
    {Str_(strftime(to_datetime(x))) : x \in {y \in Range(values) : to_datetime(y).ok}}

\* C6: an object column gets the date-format finding exactly when its
\* non-missing values that parse have more than one canonical form, and the
\* finding lists exactly those forms; values that do not parse add nothing.
\* 2023-01-05 with 01/05/2023 is one form and no finding; 2023-01-05 with
\* 2023-02-05 lists both.
C6_DateFinding ==
    (Inspected /\ IsObject(LastColumn)) =>
        /\ Has(DateMsg) <=> Cardinality(CanonicalForms(LastValues)) > 1
        /\ Has(DateMsg) => Listed(DateMsg) = CanonicalForms(LastValues)
        /\ \A x \in Range(LastValues) :
              (x.k = "str" /\ x.v \notin {S_iso_jan5, S_us_jan5, S_iso_feb5})
                  => ~to_datetime(x).ok
        /\ {x \in Range(LastValues) : to_datetime(x).ok}
              = {Str_(S_iso_jan5), Str_(S_us_jan5)} => ~Has(DateMsg)
        /\ {x \in Range(LastValues) : to_datetime(x).ok}
              = {Str_(S_iso_jan5), Str_(S_iso_feb5)}
              => Listed(DateMsg) = {Str_(S_iso_jan5), Str_(S_iso_feb5)}

C6_Witness ==
    /\ Inspected /\ IsObject(LastColumn)
    /\ Range(LastValues) = {Str_(S_iso_jan5), Str_(S_iso_feb5), Str_(S_Maybe)}
    /\ Listed(DateMsg) = {Str_(S_iso_jan5), Str_(S_iso_feb5)}

\* C7: an object column gets the boolean-representation finding exactly when
\* one of its distinct non-missing values is in the boolean vocabulary, and
\* the finding lists every distinct value of the column: Yes, No, Maybe lists
\* all three.
C7_BoolFinding ==
    (Inspected /\ IsObject(LastColumn)) =>
        /\ Has(BoolMsg) <=> \E x \in Range(LastValues) : PyKey(x) \in boolean_aliases
        /\ Has(BoolMsg) => Listed(BoolMsg) = {PyKey(x) : x \in Range(LastValues)}
        /\ Range(LastValues) = {Str_(S_Yes), Str_(S_No), Str_(S_Maybe)}
              => Listed(BoolMsg) = {Str_(S_Yes), Str_(S_No), Str_(S_Maybe)}
        /\ Range(LastValues) \subseteq {Str_(S_Maybe), Str_(S_cafe), Str_(S_na)}
              => ~Has(BoolMsg)

C7_Witness ==
    /\ Inspected /\ IsObject(LastColumn)
    /\ Range(LastValues) = {Str_(S_Yes), Str_(S_No), Str_(S_Maybe)}
    /\ Listed(BoolMsg) = {Str_(S_Yes), Str_(S_No), Str_(S_Maybe)}

\* C8: an object column gets the missing-placeholder finding exactly when a
\* distinct non-missing value is in the case-sensitive placeholder
\* vocabulary, and the finding lists exactly the values that are: "na" is
\* never listed and never triggers it.
C8_MissingFinding ==
    (Inspected /\ IsObject(LastColumn)) =>
        /\ Has(MissingMsg) <=> \E x \in Range(LastValues) : x \in known_missing
        /\ Listed(MissingMsg) = {x \in Range(LastValues) : x \in known_missing}
        /\ Str_(S_na) \notin Listed(MissingMsg)
        /\ Range(LastValues) \cap {Str_(S_NA), Str_(<<>>)} = {} => ~Has(MissingMsg)

C8_Witness ==
    /\ Inspected /\ IsObject(LastColumn)
    /\ Range(LastValues) = {Str_(S_NA), Str_(S_na), Str_(S_cafe)}
    /\ Listed(MissingMsg) = {Str_(S_NA)}

\* C9: a numeric column whose non-missing values are all floats gets the
\* numeric-precision finding exactly when it holds an integral and a
\* non-integral value, missing values aside, the check raising nothing; and
\* no column gets both the mixed-numeric-types and the numeric-precision
\* finding.
C9_Precision ==
    /\ (Inspected /\ is_numeric_dtype(LastColumn)
          /\ \A x \in Range(LastValues) : x.k = "float") =>
          /\ raised # "TypeError"
          /\ Has(PrecisionMsg) <=>
                /\ \E x \in Range(LastValues) : x.v[2] = 0
                /\ \E x \in Range(LastValues) : x.v[2] # 0
    /\ Inspected => ~(Has(MixedMsg) /\ Has(PrecisionMsg))

C9_Witness ==
    /\ Inspected /\ LastColumn.dtype = "float64"
    /\ Range(Cells(LastColumn)) = {Float_(1, 0), Float_(2, 5), Missing}
    /\ Has(PrecisionMsg)

\* C10: an object column gets the encoding finding, a flag listing nothing,
\* exactly when a non-missing value, as text, has a character above 0x7F,
\* and gets it at most once: "café" is flagged, "cafe" alone is not.
C10_Encoding ==
    (Inspected /\ IsObject(LastColumn)) =>
        /\ Has(EncodingMsg) <=>
              \E x \in Range(LastValues) : \E j \in 1..Len(str(x)) : str(x)[j] > AsciiMax
        /\ Cardinality(FindingsOf(EncodingMsg)) <= 1
        /\ Listed(EncodingMsg) = {}
        /\ Str_(S_cafe_acute) \in Range(LastValues) => Has(EncodingMsg)
        /\ Range(LastValues) = {Str_(S_cafe)} => ~Has(EncodingMsg)

C10_Witness ==
    /\ Inspected /\ IsObject(LastColumn)
    /\ Cardinality({i \in 1..Len(LastValues) : LastValues[i] = Str_(S_cafe_acute)}) > 1
    /\ Cardinality(FindingsOf(EncodingMsg)) = 1

\* A table with no row, whatever its columns.
ZeroRows(t) == \A i \in 1..Len(t.columns) : Len(t.columns[i].supplied) = 0

\* C11: on a table with zero rows verifyConsistency raises nothing and
\* returns the empty report, while checkCompletedness, checkUniqueness and
\* checkConsistency raise ValueError on it.
C11_ZeroRows ==
    (df.isDataFrame /\ ZeroRows(df)) =>
        /\ fn = "verifyConsistency" =>
              /\ raised = "none"
              /\ column_inconsistencies = <<>>
              /\ pc = "done" => EmptyReport
        /\ (fn # "verifyConsistency" /\ pc = "done") =>
              raised = "ValueError" /\ result = NoFrame

C11_Witness ==
    /\ VerifyOnTable /\ ZeroRows(df) /\ EmptyReport
    /\ Len(df.columns) = 1 /\ df.columns[1].dtype = "int64"

\* The twelve documented keys.
MetadataKeys ==
    {"file_name", "file_size", "last_modified", "nrows", "ncols", "colName"}
        \cup PropertyKeys

\* C12: getMetadata raises TypeError exactly when the path's extension is
\* neither .xlsx nor .csv, and for an existing .csv or .xlsx file it returns
\* a dict with the twelve documented keys, the six document properties None
\* for a CSV, and nrows, ncols and colName those of the file's data.
C12_Metadata ==
    (fn = "getMetadata" /\ pc = "done") =>
        /\ raised = "TypeError" <=> extension(file.path) \notin {E_xlsx, E_csv}
        /\ (file.exists /\ extension(file.path) \in {E_xlsx, E_csv}) =>
              /\ raised = "none"
              /\ DOMAIN metadata = MetadataKeys
              /\ extension(file.path) = E_csv =>
                    \A k \in PropertyKeys : metadata[k] = Missing
              /\ metadata["nrows"] = Int_(file.nrows)
              /\ metadata["ncols"] = Int_(Len(file.columns))
              /\ metadata["colName"] = Str_(Join(file.columns))

\* Each category's own condition on a column.
DateCond(c) == IsObject(c) /\ Cardinality(CanonicalForms(dropna(Cells(c)))) > 1

BoolCond(c) ==
    IsObject(c) /\ \E x \in Range(dropna(Cells(c))) : PyKey(x) \in boolean_aliases

MissingCond(c) ==
    IsObject(c) /\ \E x \in Range(dropna(Cells(c))) : x \in known_missing

EncodingCond(c) ==
    IsObject(c) /\ \E x \in Range(dropna(Cells(c))) :
                      \E j \in 1..Len(str(x)) : str(x)[j] > AsciiMax

NumericCond(c) ==
    /\ is_numeric_dtype(c)
    /\ \/ Cardinality({x.k : x \in Range(dropna(Cells(c)))}) > 1
       \/ /\ \E x \in Range(dropna(Cells(c))) : x.k = "float" /\ x.v[2] = 0
          /\ \E x \in Range(dropna(Cells(c))) : x.k = "float" /\ x.v[2] # 0

\* The place of a category in the fixed order; the two numeric ones share it.
Rank(cat) ==
    CASE cat = DateMsg -> 1
      [] cat = BoolMsg -> 2
      [] cat = MissingMsg -> 3
      [] cat = EncodingMsg -> 4
      [] OTHER -> 5

\* C13: within a column each category's finding is there exactly when the
\* category's own condition holds, whatever the other checks found; each
\* category gives at most one finding; the findings stand in the order date,
\* boolean, missing, encoding, numeric; and a column with no row in the
\* returned report met no category's condition.
C13_Independent ==
    /\ Inspected =>
          /\ Has(DateMsg) <=> DateCond(LastColumn)
          /\ Has(BoolMsg) <=> BoolCond(LastColumn)
          /\ Has(MissingMsg) <=> MissingCond(LastColumn)
          /\ Has(EncodingMsg) <=> EncodingCond(LastColumn)
          /\ (Has(MixedMsg) \/ Has(PrecisionMsg)) <=> NumericCond(LastColumn)
          /\ \A i, j \in 1..Len(column_inconsistencies) :
                i < j => Rank(column_inconsistencies[i].cat)
                            < Rank(column_inconsistencies[j].cat)
    /\ (VerifyOnTable /\ pc = "done" /\ raised = "none") =>
          \A i \in 1..Len(df.columns) :
              (\A k \in 1..Len(result.rows) : result.rows[k][1] # df.columns[i].name)
                  => ~(\/ DateCond(df.columns[i]) \/ BoolCond(df.columns[i])
                       \/ MissingCond(df.columns[i]) \/ EncodingCond(df.columns[i])
                       \/ NumericCond(df.columns[i]))

C13_Witness ==
    /\ Inspected
    /\ [i \in 1..Len(column_inconsistencies) |-> column_inconsistencies[i].cat]
          = <<DateMsg, BoolMsg, MissingMsg>>
    /\ Range(LastValues) = {Int_(1), Str_(S_iso_jan5), Str_(S_NA)}

====
